---- MODULE Spec2Model ----
(***************************************************************************)
(* Model of examples/agent-integration/disclose_tool.py: fetch_signals,    *)
(* _extract_signals, DiscloseSignals.summary, DiscloseSignals.score and    *)
(* _format_value.                                                          *)
(*                                                                         *)
(* Python values are tagged records:                                       *)
(*   None   [t |-> "None"]                                                 *)
(*   str    [t |-> "str",  s |-> sequence of text tokens]                  *)
(*   number [t |-> "num",  n |-> the value in thousandths]                 *)
(*   dict   [t |-> "dict", d |-> sequence of <<key, value>>, keys unique,  *)
(*           in insertion order; a key is a sequence of text tokens]       *)
(*   list   [t |-> "list", l |-> sequence of values]                       *)
(* A raised exception is [t |-> "raise", cls, code, reason, msg].          *)
(* A str is a sequence of tokens; the empty str is << >>.  The domain      *)
(* argument is spelled character by character, so that rstrip and          *)
(* removeprefix work on characters.                                        *)
(***************************************************************************)
EXTENDS Integers, Sequences, FiniteSets, TLC

VARIABLES pc, merchant_domain, signals, response, url, result, summaryOut, scoreOut

vars == <<pc, merchant_domain, signals, response, url, result, summaryOut, scoreOut>>

(* ---------------- bounds ---------------- *)
MaxDomainParts == 4
MaxGraph == 2

(* ---------------- Python values ---------------- *)
PyNone == [t |-> "None"]
Str(s) == [t |-> "str", s |-> s]
Num(n) == [t |-> "num", n |-> n]
Dict(d) == [t |-> "dict", d |-> d]
List(l) == [t |-> "list", l |-> l]
Raise(cls, msg) == [t |-> "raise", cls |-> cls, code |-> 0, reason |-> PyNone, msg |-> msg]

IsRaise(v) == v.t = "raise"

Truthy(v) ==
  CASE v.t = "None" -> FALSE
    [] v.t = "str"  -> v.s # << >>
    [] v.t = "num"  -> v.n # 0
    [] v.t = "dict" -> v.d # << >>
    [] v.t = "list" -> v.l # << >>
    [] OTHER        -> TRUE

Range(s) == {s[i] : i \in 1..Len(s)}

(* dict operations on the sequence of <<key, value>> entries *)
DictKeys(d) == {d[i][1] : i \in 1..Len(d)}
DictHas(d, k) == k \in DictKeys(d)
DictIndex(d, k) == CHOOSE i \in 1..Len(d) : d[i][1] = k
DictGet(d, k, default) == IF DictHas(d, k) THEN d[DictIndex(d, k)][2] ELSE default
(* d.setdefault(k, v): the first value written is kept *)
DictSetDefault(d, k, v) == IF DictHas(d, k) THEN d ELSE Append(d, <<k, v>>)

(* d[k] = v *)
DictPut(d, k, v) ==
  IF DictHas(d, k)
  THEN [d EXCEPT ![DictIndex(d, k)] = <<k, v>>]
  ELSE Append(d, <<k, v>>)

(* ---------------- constants of the program ---------------- *)
WELL_KNOWN_PATH == <<"/.well-known/disclose.json">>
HTTPS == <<"h", "t", "t", "p", "s", ":", "/", "/">>
HTTP == <<"h", "t", "t", "p", ":", "/", "/">>
PREFIX == "disclose:"

K(name) == <<PREFIX>> \o name
REVIEW_RATING == K(<<"review_rating">>)
RETURN_RATE == K(<<"return_rate">>)
DISPUTE_RATE == K(<<"dispute_rate">>)
FULFILLMENT == K(<<"fulfillment_", "days", "_p50">>)
VERIFIER == K(<<"verifier">>)
VERIFIED_AT == K(<<"verified_at">>)
GRAPH == <<"@graph">>
ATID == <<"@id">>

(* ---------------- str methods ---------------- *)
StartsWith(s, p) == Len(s) >= Len(p) /\ SubSeq(s, 1, Len(p)) = p

RemovePrefix(s, p) == IF StartsWith(s, p) THEN SubSeq(s, Len(p) + 1, Len(s)) ELSE s

(* removes one trailing "/" only *)
RStripSlashOnce(s) ==
  IF Len(s) > 0 /\ s[Len(s)] = "/" THEN SubSeq(s, 1, Len(s) - 1) ELSE s

(* s.rstrip("/"): removes every trailing "/" *)
RECURSIVE RStrip(_)
RStrip(s) ==
  IF Len(s) > 0 /\ s[Len(s)] = "/" THEN RStrip(SubSeq(s, 1, Len(s) - 1)) ELSE s

(* line 140 *)
NormalizeDomain(d) == RemovePrefix(RemovePrefix(RStrip(d), HTTPS), HTTP)

(* line 141 *)
BuildUrl(domain) == HTTPS \o domain \o WELL_KNOWN_PATH

(* ---------------- conversions: str(), float(), format ---------------- *)
Abs(n) == IF n < 0 THEN 0 - n ELSE n
Sign(n) == IF n < 0 THEN "-" ELSE ""
Pad2(x) == IF x < 10 THEN "0" \o ToString(x) ELSE ToString(x)
Pad3(x) == IF x < 100 THEN "0" \o Pad2(x) ELSE ToString(x)

(* repr of a float given in thousandths: 4200 -> "4.2", 5000 -> "5.0", 80 -> "0.08".
   JSON numbers are taken as floats. *)
FloatRepr(n) ==
  LET ip == Abs(n) \div 1000
      fr == Abs(n) % 1000
      frac == IF fr % 100 = 0 THEN ToString(fr \div 100)
              ELSE IF fr % 10 = 0 THEN Pad2(fr \div 10)
              ELSE Pad3(fr)
  IN Sign(n) \o ToString(ip) \o "." \o frac

(* f"{x*100:.1f}" and f"{x*100:.2f}" of a float x given in thousandths *)
Fixed1Percent(n) == Sign(n) \o ToString(Abs(n) \div 10) \o "." \o ToString(Abs(n) % 10)
Fixed2Percent(n) == Fixed1Percent(n) \o "0"

(* the numeric strings float() can parse, with their value in thousandths *)
Numerals == {<<"0.5", 500>>, <<"4.5", 4500>>}

(* float(v): a number is itself, a numeric str is parsed, any other str is a
   ValueError, None, dict and list are a TypeError *)
Float(v) ==
  CASE v.t = "num" -> v
    [] v.t = "str" ->
         IF \E p \in Numerals : v.s = <<p[1]>>
         THEN Num((CHOOSE p \in Numerals : v.s = <<p[1]>>)[2])
         ELSE Raise("ValueError", <<"could not convert string to float">>)
    [] OTHER -> Raise("TypeError", <<"float() argument must be a string or a real number">>)

RECURSIVE JoinComma(_, _)
JoinComma(parts, i) ==
  IF i > Len(parts) THEN << >>
  ELSE (IF i > 1 THEN <<", ">> ELSE << >>) \o parts[i] \o JoinComma(parts, i + 1)

(* str(v) for v a str, repr(v) inside containers *)
RECURSIVE PyRepr(_)
PyRepr(v) ==
  CASE v.t = "None" -> <<"None">>
    [] v.t = "str"  -> <<"'">> \o v.s \o <<"'">>
    [] v.t = "num"  -> <<FloatRepr(v.n)>>
    [] v.t = "dict" -> <<"{">> \o JoinComma([i \in 1..Len(v.d) |->
                          <<"'">> \o v.d[i][1] \o <<"': ">> \o PyRepr(v.d[i][2])], 1) \o <<"}">>
    [] v.t = "list" -> <<"[">> \o JoinComma([i \in 1..Len(v.l) |-> PyRepr(v.l[i])], 1) \o <<"]">>

(* str(v), as a str value *)
PyStr(v) == IF v.t = "str" THEN v ELSE Str(PyRepr(v))

(* ---------------- the try block, lines 143-163 ---------------- *)

(* Base classes of the exceptions urlopen, read, decode and json.loads raise. *)
Bases(cls) ==
  CASE cls = "HTTPError"          -> {"URLError"}
    [] cls = "URLError"           -> {"OSError"}
    [] cls = "TimeoutError"       -> {"OSError"}
    [] cls = "OSError"            -> {"Exception"}
    [] cls = "JSONDecodeError"    -> {"ValueError"}
    [] cls = "UnicodeDecodeError" -> {"ValueError"}
    [] cls = "ValueError"         -> {"Exception"}
    [] cls = "HTTPException"      -> {"Exception"}
    [] OTHER                      -> {}

RECURSIVE Ancestors(_)
Ancestors(cls) == {cls} \cup UNION {Ancestors(b) : b \in Bases(cls)}

IsInstance(e, cls) == cls \in Ancestors(e.cls)

(* lines 144-152: urlopen + read + decode + json.loads on the outcome of the GET.
   Yields the parsed document or the exception raised inside the try block. *)
TryBlock(resp) ==
  CASE resp.kind = "json"      -> resp.raw
    [] resp.kind = "status"    ->
         [t |-> "raise", cls |-> "HTTPError", code |-> resp.code,
          reason |-> Str(resp.reason), msg |-> <<"HTTP Error ", ToString(resp.code), ": ">> \o resp.reason]
    [] resp.kind = "transport" ->
         [t |-> "raise", cls |-> "URLError", code |-> 0,
          reason |-> Str(resp.reason), msg |-> <<"<urlopen error ">> \o resp.reason \o <<">">>]
    [] resp.kind = "not_json"  -> Raise("JSONDecodeError", <<"Expecting value: line 1 column 1 (char 0)">>)
    [] resp.kind = "not_utf8"  -> Raise("UnicodeDecodeError", <<"'utf-8' codec can't decode byte 0xff in position 0: invalid start byte">>)
    [] resp.kind = "other"     -> Raise(resp.cls, resp.msg)

(* dataclass constructor, lines 70-79 *)
DiscloseSignals(domain, raw, sigs, verifier, verified_at, error) ==
  [t |-> "DiscloseSignals", merchant_domain |-> domain, raw |-> raw, signals |-> sigs,
   verifier |-> verifier, verified_at |-> verified_at, error |-> error]

EmptyDict == Dict(<< >>)

(* an except clause that also reports the failure as a signal *)
ErrorResultWithSignal(domain, error) ==
  DiscloseSignals(domain, EmptyDict, Dict(<< <<K(<<"error">>), error>> >>), PyNone, PyNone, error)

(* the result every except clause builds: raw={}, signals defaulted, error set *)
ErrorResult(domain, error) ==
  DiscloseSignals(domain, EmptyDict, EmptyDict, PyNone, PyNone, error)

(* the except clauses with URLError tried before its subclass HTTPError *)
HandleExceptionURLErrorFirst(domain, e) ==
  IF IsInstance(e, "URLError")
  THEN ErrorResult(domain, PyStr(e.reason))
  ELSE IF IsInstance(e, "HTTPError")
  THEN ErrorResult(domain, Str(<<"HTTP ", ToString(e.code), ": merchant may not support Disclose Framework">>))
  ELSE IF IsInstance(e, "JSONDecodeError")
  THEN ErrorResult(domain, Str(<<"Invalid JSON at endpoint">>))
  ELSE IF IsInstance(e, "Exception")
  THEN ErrorResult(domain, Str(e.msg))
  ELSE e

(* lines 153-163: the except clauses, tried in order *)
HandleException(domain, e) ==
  IF IsInstance(e, "HTTPError")
  THEN ErrorResult(domain, Str(<<"HTTP ", ToString(e.code), ": merchant may not support Disclose Framework">>))
  ELSE IF IsInstance(e, "URLError")
  THEN ErrorResult(domain, PyStr(e.reason))
  ELSE IF IsInstance(e, "JSONDecodeError")
  THEN ErrorResult(domain, Str(<<"Invalid JSON at endpoint">>))
  ELSE IF IsInstance(e, "Exception")
  THEN ErrorResult(domain, Str(e.msg))
  ELSE e

(* ---------------- _extract_signals, lines 182-195 ---------------- *)

(* k.startswith("disclose:") *)
IsDiscloseKey(k) == Len(k) > 0 /\ k[1] = PREFIX

(* one "for k, v in d.items(): if k.startswith(...): signals[k] = v" loop *)
RECURSIVE CollectFrom(_, _, _)
CollectFrom(acc, d, i) ==
  IF i > Len(d) THEN acc
  ELSE CollectFrom(IF IsDiscloseKey(d[i][1]) THEN DictPut(acc, d[i][1], d[i][2]) ELSE acc, d, i + 1)

(* lines 190-194 over the elements of a list *)
RECURSIVE CollectGraph(_, _, _)
CollectGraph(acc, nodes, i) ==
  IF i > Len(nodes) THEN acc
  ELSE CollectGraph(IF nodes[i].t = "dict" THEN CollectFrom(acc, nodes[i].d, 1) ELSE acc, nodes, i + 1)

(* raw.get("@graph", []) iterated by the for statement: a list yields its
   elements; a str yields its characters and a dict its keys, none of which
   is a dict; None and numbers are not iterable. *)
ExtractSignals(raw) ==
  IF raw.t # "dict" THEN Raise("AttributeError", <<"object has no attribute 'items'">>)
  ELSE LET root == CollectFrom(<< >>, raw.d, 1)
           g == DictGet(raw.d, GRAPH, List(<< >>))
       IN CASE g.t = "list" -> Dict(CollectGraph(root, g.l, 1))
            [] g.t \in {"str", "dict"} -> Dict(root)
            [] OTHER -> Raise("TypeError", <<"object is not iterable">>)

(* ---------------- fetch_signals after the try block, lines 165-179 -------- *)

(* k in signals, for signals a list of str *)
InList(k, lst) == \E i \in 1..Len(lst.l) : lst.l[i] = Str(k)

(* {k: v for k, v in all_signals.items() if k in signals} *)
RECURSIVE Comprehension(_, _, _)
Comprehension(d, lst, i) ==
  IF i > Len(d) THEN << >>
  ELSE (IF InList(d[i][1], lst) THEN <<d[i]>> ELSE << >>) \o Comprehension(d, lst, i + 1)

(* lines 168-171 *)
Filter(all_signals, sigs) ==
  IF Truthy(sigs) THEN Dict(Comprehension(all_signals.d, sigs, 1)) ELSE all_signals

(* line 177: raw.get("disclose:verifier", {}).get("@id") or raw.get("disclose:verifier") *)
VerifierOf(raw) ==
  LET v == DictGet(raw.d, VERIFIER, EmptyDict)
  IN IF v.t # "dict" THEN Raise("AttributeError", <<"object has no attribute 'get'">>)
     ELSE LET id == DictGet(v.d, ATID, PyNone)
          IN IF Truthy(id) THEN id ELSE DictGet(raw.d, VERIFIER, PyNone)

(* lines 165-179 *)
BuildResult(domain, raw, sigs) ==
  LET all_signals == ExtractSignals(raw)
  IN IF IsRaise(all_signals) THEN all_signals
     ELSE LET filtered == Filter(all_signals, sigs)
              verifier == VerifierOf(raw)
          IN IF IsRaise(verifier) THEN verifier
             ELSE DiscloseSignals(domain, raw, filtered, verifier,
                                  DictGet(raw.d, VERIFIED_AT, PyNone), PyNone)

(* fetch_signals, lines 126-179: the value returned or the exception raised *)
FetchResult(md, sigs, resp) ==
  LET domain == NormalizeDomain(md)
      raw == TryBlock(resp)
  IN IF IsRaise(raw) THEN HandleException(domain, raw)
     ELSE BuildResult(domain, raw, sigs)

(* ---------------- _format_value, lines 198-207 ---------------- *)
FormatValue(key, value) ==
  IF key = <<"return_rate">>
  THEN LET f == Float(value) IN IF IsRaise(f) THEN f ELSE Str(<<Fixed1Percent(f.n), "%">>)
  ELSE IF key = <<"dispute_rate">>
  THEN LET f == Float(value) IN IF IsRaise(f) THEN f ELSE Str(<<Fixed2Percent(f.n), "%">>)
  ELSE IF key = <<"review_rating">>
  THEN Str(PyStr(value).s \o <<"/5.0">>)
  ELSE IF "days" \in Range(key)
  THEN Str(PyStr(value).s \o <<" days">>)
  ELSE PyStr(value)

(* ---------------- DiscloseSignals.summary, lines 81-94 ---------------- *)

(* key.replace("disclose:", "") *)
ShortKey(key) == SelectSeq(key, LAMBDA tok : tok # PREFIX)

NO_SIGNALS_LINE == <<"  No signals published.">>
ErrorLine(domain, error) ==
  <<"[Disclose] Could not retrieve signals for ">> \o domain \o <<": ">> \o PyStr(error).s
HeaderLine(domain) == <<"[Disclose signals for ">> \o domain \o <<"]">>
VerifierLine(verifier, verified_at) ==
  <<"  Verified by: ">> \o PyStr(verifier).s \o <<" at ">>
    \o PyStr(IF Truthy(verified_at) THEN verified_at ELSE Str(<<"unknown time">>)).s
SignalLine(short_key, text) == <<"  ">> \o short_key \o <<": ">> \o text.s

Text(lines) == [t |-> "text", lines |-> lines]

(* lines 89-91: the loop over self.signals.items(); the first _format_value
   that raises ends the call *)
RECURSIVE SignalLines(_, _, _)
SignalLines(lines, d, i) ==
  IF i > Len(d) THEN Text(lines)
  ELSE LET short_key == ShortKey(d[i][1])
           text == FormatValue(short_key, d[i][2])
       IN IF IsRaise(text) THEN text
          ELSE SignalLines(Append(lines, SignalLine(short_key, text)), d, i + 1)

(* the lines of the returned string (joined by "\n"), or the exception raised *)
Summary(r) ==
  IF Truthy(r.error)
  THEN Text(<<ErrorLine(r.merchant_domain, r.error)>>)
  ELSE LET head == <<HeaderLine(r.merchant_domain)>>
                     \o (IF Truthy(r.verifier) THEN <<VerifierLine(r.verifier, r.verified_at)>> ELSE << >>)
           body == SignalLines(head, r.signals.d, 1)
       IN IF IsRaise(body) THEN body
          ELSE IF ~Truthy(r.signals) THEN Text(Append(body.lines, NO_SIGNALS_LINE))
          ELSE body

(* ---------------- DiscloseSignals.score, lines 96-123 ---------------- *)

(* <<key, max_value in thousandths, weight in units of 0.05>>, in dict order *)
Weights ==
  << <<REVIEW_RATING, 5000, 7>>,
     <<RETURN_RATE,   1000, -5>>,
     <<DISPUTE_RATE,  1000, -4>>,
     <<FULFILLMENT,  30000, -4>> >>

(* round(num / den, 3) in thousandths, den > 0.  An exact decimal tie
   (x.xxx5) is no binary float: the quotient the code rounds lies just above
   or just below it, so the result is either neighbour (tieUp). *)
Round3(num, den, tieUp) ==
  LET q0  == num \div den
      r   == num % den
      h   == (1000 * r) \div den
      rem == (1000 * r) % den
      up  == (2 * rem > den) \/ (2 * rem = den /\ tieUp)
  IN 1000 * q0 + h + (IF up THEN 1 ELSE 0)

(* The loop of lines 111-121.  score is kept as the exact fraction
   acc / (30000 * 20) and total_weight as tw / 20: every max value divides
   30000, so each contribution |w| * normalized is an integer number of
   1/(30000*20)ths. *)
RECURSIVE ScoreLoop(_, _, _, _, _)
ScoreLoop(sigs, i, acc, tw, tieUp) ==
  IF i > Len(Weights)
  THEN IF tw > 0 THEN Num(Round3(acc, 30000 * tw, tieUp)) ELSE PyNone
  ELSE LET key == Weights[i][1]
           max_val == Weights[i][2]
           w == Weights[i][3]
           val == DictGet(sigs.d, key, PyNone)
       IN IF val.t = "None" THEN ScoreLoop(sigs, i + 1, acc, tw, tieUp)
          ELSE LET f == Float(val)
               IN IF IsRaise(f) THEN f
                  ELSE LET normalized == f.n * (30000 \div max_val)
                       IN IF w < 0
                          THEN ScoreLoop(sigs, i + 1, acc + Abs(w) * (30000 - normalized), tw + Abs(w), tieUp)
                          ELSE ScoreLoop(sigs, i + 1, acc + w * normalized, tw + Abs(w), tieUp)

Score(r, tieUp) == ScoreLoop(r.signals, 1, 0, 0, tieUp)

(* ---------------- the inputs of a call ---------------- *)

(* domain arguments: up to MaxDomainParts pieces, spelled by character *)
DomainPieces == {HTTPS, HTTP, <<"/">>, <<"a">>}

RECURSIVE DomainsOf(_)
DomainsOf(n) ==
  IF n = 0 THEN {<< >>}
  ELSE LET shorter == DomainsOf(n - 1)
       IN shorter \cup {d \o p : d \in shorter, p \in DomainPieces}

Domains == DomainsOf(MaxDomainParts)

Acme == <<"a", "c", "m", "e", ".", "c", "o", "m">>

NAME == <<"name">>
UNKNOWN == K(<<"unknown">>)

(* documents for extraction and filtering: a root object, with or without
   an @graph array of up to MaxGraph elements *)
RootDicts ==
  { << >>,
    << <<REVIEW_RATING, Num(4200)>> >>,
    << <<RETURN_RATE, Num(80)>> >>,
    << <<NAME, Str(<<"Acme">>)>> >>,
    << <<REVIEW_RATING, Num(4200)>>, <<RETURN_RATE, Num(80)>> >>,
    << <<NAME, Str(<<"Acme">>)>>, <<REVIEW_RATING, Num(4200)>> >> }

GraphNodes ==
  { Str(<<"x">>),
    Dict(<< >>),
    Dict(<< <<REVIEW_RATING, Num(4800)>> >>),
    Dict(<< <<REVIEW_RATING, Num(3100)>> >>),
    Dict(<< <<RETURN_RATE, Num(200)>> >>),
    Dict(<< <<NAME, Str(<<"n">>)>>, <<DISPUTE_RATE, Num(10)>> >>) }

RECURSIVE GraphsOf(_)
GraphsOf(n) ==
  IF n = 0 THEN {<< >>}
  ELSE LET shorter == GraphsOf(n - 1)
       IN shorter \cup {Append(g, node) : g \in shorter, node \in GraphNodes}

GraphDocs ==
  {Dict(root) : root \in RootDicts}
    \cup {Dict(Append(root, <<GRAPH, List(g)>>)) : root \in RootDicts, g \in GraphsOf(MaxGraph)}

RequestedKeys ==
  { PyNone,
    List(<< >>),
    List(<<Str(REVIEW_RATING)>>),
    List(<<Str(UNKNOWN)>>),
    List(<<Str(RETURN_RATE), Str(UNKNOWN), Str(REVIEW_RATING)>>) }

(* flat documents over the four scored keys, in and out of nominal range,
   and with values that are no numbers *)
ReviewValues == {PyNone, Num(0), Num(4200), Num(5000), Num(6000), Str(<<"4.5">>), Str(<<"n/a">>)}
ReturnValues == {Num(80), Num(1000), Num(1500), Num(-100)}
DisputeValues == {Num(10), Num(1000)}
FulfillmentValues == {Num(3000), Num(45000)}

Entry(key, values) == {<< >>} \cup {<< <<key, v>> >> : v \in values}

ScoreDocs ==
  {Dict(a \o b \o c \o d) :
     a \in Entry(REVIEW_RATING, ReviewValues), b \in Entry(RETURN_RATE, ReturnValues),
     c \in Entry(DISPUTE_RATE, DisputeValues), d \in Entry(FULFILLMENT, FulfillmentValues)}

(* documents of other shapes: a top level that is no object, an @graph that
   is no array, the forms of disclose:verifier and disclose:verified_at *)
VerifierValues ==
  { Str(<<"TrustCo">>),
    Dict(<< <<ATID, Str(<<"https://trustco.example">>)>> >>),
    Dict(<< <<NAME, Str(<<"TrustCo">>)>> >>),
    Dict(<< <<ATID, Str(<< >>)>> >>),
    PyNone }

ShapeDocs ==
  { List(<< >>), List(<<Dict(<< <<REVIEW_RATING, Num(4200)>> >>)>>), Str(<<"ok">>), Num(1000), PyNone }
    \cup {Dict(<< <<REVIEW_RATING, Num(4200)>>, <<GRAPH, g>> >>) :
            g \in {PyNone, Num(1000), Str(<<"x">>), Dict(<< <<REVIEW_RATING, Num(4800)>> >>)}}
    \cup {Dict(<< <<NAME, Str(<<"Acme">>)>>, <<GRAPH, g>> >>) : g \in {PyNone, Str(<<"x">>)}}
    \cup {Dict(<< <<VERIFIER, v>> >> \o at) :
            v \in VerifierValues, at \in Entry(VERIFIED_AT, {Str(<<"2024-01-01">>)})}
    \cup {Dict(<< <<NAME, Str(<<"Acme">>)>>, <<VERIFIED_AT, Str(<<"2024-01-01">>)>> >>)}
    \cup {Dict(<< <<RETURN_RATE, v>> >>) : v \in {Str(<<"n/a">>), Str(<<"0.5">>), PyNone}}
    \cup {Dict(<< <<DISPUTE_RATE, v>> >>) : v \in {Str(<<"n/a">>), Dict(<< >>)}}

(* outcomes of the GET that end in an exception inside the try block *)
Failures ==
  {[kind |-> "status", code |-> c, reason |-> <<"Not Found">>] : c \in {404, 500}}
    \cup {[kind |-> "transport", reason |-> r] : r \in {<<"timed out">>, <<"[Errno -2] Name or service not known">>, << >>}}
    \cup {[kind |-> "not_json"], [kind |-> "not_utf8"]}
    \cup {[kind |-> "other", cls |-> c, msg |-> m] :
            c \in {"TimeoutError", "HTTPException", "ValueError"}, m \in {<<"timed out">>, << >>}}

Json(raw) == [kind |-> "json", raw |-> raw]

Call(md, sigs, resp) == [merchant_domain |-> md, signals |-> sigs, response |-> resp]

Inputs ==
  {Call(md, PyNone, resp) :
     md \in Domains,
     resp \in {Json(Dict(<< <<REVIEW_RATING, Num(4200)>> >>)), [kind |-> "status", code |-> 404, reason |-> <<"Not Found">>]}}
    \cup {Call(Acme, sigs, Json(raw)) : sigs \in RequestedKeys, raw \in GraphDocs}
    \cup {Call(Acme, PyNone, Json(raw)) : raw \in ScoreDocs \cup ShapeDocs}
    \cup {Call(Acme, List(<<Str(REVIEW_RATING)>>), Json(raw)) : raw \in ShapeDocs}
    \cup {Call(md, sigs, resp) :
            md \in {Acme, HTTPS \o Acme \o <<"/">>}, sigs \in {PyNone, List(<<Str(REVIEW_RATING)>>)},
            resp \in Failures}

(* ---------------- the state machine ---------------- *)
NotCalled == [t |-> "not_called"]

Init ==
  /\ pc = "idle"
  /\ merchant_domain = << >>
  /\ signals = PyNone
  /\ response = [kind |-> "none"]
  /\ url = << >>
  /\ result = NotCalled
  /\ summaryOut = NotCalled
  /\ scoreOut = NotCalled

(* fetch_signals(merchant_domain, signals) against one outcome of the GET *)
FetchSignals ==
  /\ pc = "idle"
  /\ \E inp \in Inputs :
       /\ merchant_domain' = inp.merchant_domain
       /\ signals' = inp.signals
       /\ response' = inp.response
       /\ url' = BuildUrl(NormalizeDomain(inp.merchant_domain))
       /\ result' = FetchResult(inp.merchant_domain, inp.signals, inp.response)
       /\ pc' = IF IsRaise(result') THEN "raised" ELSE "returned"
  /\ UNCHANGED <<summaryOut, scoreOut>>

(* result.summary() *)
CallSummary ==
  /\ pc = "returned"
  /\ summaryOut = NotCalled
  /\ summaryOut' = Summary(result)
  /\ UNCHANGED <<pc, merchant_domain, signals, response, url, result, scoreOut>>

(* result.score() *)
CallScore ==
  /\ pc = "returned"
  /\ scoreOut = NotCalled
  /\ \E tieUp \in BOOLEAN : scoreOut' = Score(result, tieUp)
  /\ UNCHANGED <<pc, merchant_domain, signals, response, url, result, summaryOut>>

Next == FetchSignals \/ CallSummary \/ CallScore

Spec == Init /\ [][Next]_vars

(* ---------------- properties ---------------- *)

Called == pc # "idle"
Returned == pc = "returned"
Failed == response.kind \in {"status", "transport", "not_json", "not_utf8", "other"}
SummaryCalled == summaryOut # NotCalled
ScoreCalled == scoreOut # NotCalled

(* C1: fetch_signals is total: for every domain, every requestedKeys and every
   outcome of the GET, the call returns a DiscloseSignals value and never
   raises to its caller. *)
C1_FetchNeverRaises == Called => (pc = "returned" /\ result.t = "DiscloseSignals")

(* C2: every result fetch_signals returns satisfies the outcome invariant: if
   error is present then signals and raw are empty, and if signals is
   non-empty then error is absent. *)
C2_OutcomeInvariant ==
  Returned =>
    /\ result.error # PyNone => (result.signals = EmptyDict /\ result.raw = EmptyDict)
    /\ result.signals # EmptyDict => result.error = PyNone

C2_Witness ==
  /\ Returned
  /\ response.kind = "transport"
  /\ result.error # PyNone
  /\ result.signals = EmptyDict

(* C3: for every requestedKeys list the caller supplies (the empty list
   included), the keys of the returned signals are a subset of the extracted
   keys and of the requested keys, each kept key keeps its extracted value,
   and no error is reported. *)
C3_FilterSubset ==
  (Returned /\ response.kind = "json" /\ signals # PyNone) =>
    LET extracted == ExtractSignals(response.raw).d
        requested == {signals.l[i].s : i \in 1..Len(signals.l)}
    IN /\ DictKeys(result.signals.d) \subseteq (DictKeys(extracted) \cap requested)
       /\ \A k \in DictKeys(result.signals.d) :
            DictGet(result.signals.d, k, PyNone) = DictGet(extracted, k, PyNone)
       /\ result.error = PyNone

(* C4: whenever score() returns, it returns None or a number in [0, 1], also
   for raw values outside their nominal range. *)
C4_ScoreInUnitRange ==
  (ScoreCalled /\ ~IsRaise(scoreOut)) =>
    \/ scoreOut = PyNone
    \/ (scoreOut.t = "num" /\ scoreOut.n >= 0 /\ scoreOut.n <= 1000)

ScoredKeys == {Weights[i][1] : i \in 1..Len(Weights)}

(* C5: score() returns None (never 0.0) whenever none of the four recognized
   keys is present in signals, and returns a number whenever at least one of
   them is present.  A key counts as present as the code's own test reads it
   (signals.get(key) is not None), so a null value is not held against the
   claim. *)
C5_NoneIffNoRecognizedKey ==
  ScoreCalled =>
    IF \A k \in ScoredKeys : DictGet(result.signals.d, k, PyNone) = PyNone
    THEN scoreOut = PyNone
    ELSE scoreOut.t = "num"

(* the domain the request went to: url is https:// + domain + path *)
UrlDomain == SubSeq(url, Len(HTTPS) + 1, Len(url) - Len(WELL_KNOWN_PATH))

RemoveOneScheme(s) ==
  IF StartsWith(s, HTTPS) THEN RemovePrefix(s, HTTPS) ELSE RemovePrefix(s, HTTP)

(* C6 as claimed: the normalized domain is the argument with one leading
   scheme and one trailing "/" removed and nothing else, and the URL is
   https://{normalized}/.well-known/disclose.json. *)
C6_StrippedExactlyOnce ==
  Called =>
    /\ url = HTTPS \o UrlDomain \o WELL_KNOWN_PATH
    /\ UrlDomain = RemoveOneScheme(RStripSlashOnce(merchant_domain))
    /\ Returned => result.merchant_domain = UrlDomain

(* the argument without its trailing slashes: the prefix that ends at the
   last character that is no "/" *)
WithoutTrailingSlashes(s) ==
  LET last == CHOOSE i \in 0..Len(s) :
                /\ \A j \in (i + 1)..Len(s) : s[j] = "/"
                /\ i > 0 => s[i] # "/"
  IN SubSeq(s, 1, last)

(* C6, amended: the normalized domain (in the URL and in merchant_domain) is
   the argument with ALL its trailing slashes removed, then one leading
   https:// removed if present, then one leading http:// removed if present
   (so https://http://x loses both schemes and http://https://x only the
   first); the URL is https://{normalized}/.well-known/disclose.json. *)
C6_Normalized ==
  Called =>
    LET s == WithoutTrailingSlashes(merchant_domain)
    IN /\ url = HTTPS \o UrlDomain \o WELL_KNOWN_PATH
       /\ Returned => result.merchant_domain = UrlDomain
       /\ \/ s = UrlDomain /\ ~StartsWith(s, HTTPS) /\ ~StartsWith(s, HTTP)
          \/ s = HTTPS \o UrlDomain /\ ~StartsWith(UrlDomain, HTTP)
          \/ s = HTTP \o UrlDomain
          \/ s = HTTPS \o HTTP \o UrlDomain

C6_Witness ==
  /\ Returned
  /\ merchant_domain = HTTPS \o <<"a", "/", "/">>
  /\ result.merchant_domain = <<"a">>
  /\ url = HTTPS \o <<"a">> \o WELL_KNOWN_PATH

Max(S) == CHOOSE x \in S : \A y \in S : y <= x

(* C7: extraction is last-write-wins in the order root, then @graph elements
   in array order: a key at the root and in an object element of @graph has
   the @graph value, a key in several elements has the last element's value,
   and each key appears once. *)
C7_LastWriteWins ==
  (Returned /\ response.kind = "json" /\ signals = PyNone) =>
    LET root == response.raw.d
        g == DictGet(root, GRAPH, List(<< >>))
        nodes == IF g.t = "list" THEN g.l ELSE << >>
        objects == {i \in 1..Len(nodes) : nodes[i].t = "dict"}
        Occ(k) == {i \in objects : DictHas(nodes[i].d, k)}
        sig == result.signals.d
    IN /\ DictKeys(sig) =
            {k \in DictKeys(root) \cup UNION {DictKeys(nodes[i].d) : i \in objects} : IsDiscloseKey(k)}
       /\ Cardinality(DictKeys(sig)) = Len(sig)
       /\ \A k \in DictKeys(sig) :
            DictGet(sig, k, PyNone) =
              IF Occ(k) # {} THEN DictGet(nodes[Max(Occ(k))].d, k, PyNone)
              ELSE DictGet(root, k, PyNone)

C7_Witness ==
  /\ Returned
  /\ signals = PyNone
  /\ response.kind = "json"
  /\ response.raw = Dict(<< <<REVIEW_RATING, Num(4200)>>,
                            <<GRAPH, List(<<Dict(<< <<REVIEW_RATING, Num(4800)>> >>),
                                            Dict(<< <<REVIEW_RATING, Num(3100)>> >>)>>)>> >>)
  /\ result.signals = Dict(<< <<REVIEW_RATING, Num(3100)>> >>)

(* C8: each failure is reported in the error class of its kind: a non-2xx
   status as "HTTP <code>: merchant may not support Disclose Framework", a
   transport failure as its reason, a 2xx body that is no JSON as exactly
   "Invalid JSON at endpoint", any other failure as its own description. *)
C8_ErrorClass ==
  (Called /\ Failed) =>
    /\ Returned
    /\ response.kind = "status" =>
         result.error = Str(<<"HTTP ", ToString(response.code), ": merchant may not support Disclose Framework">>)
    /\ response.kind = "transport" => result.error = Str(response.reason)
    /\ response.kind = "not_json" => result.error = Str(<<"Invalid JSON at endpoint">>)
    /\ response.kind = "other" => result.error = Str(response.msg)
    /\ response.kind = "not_utf8" =>
         /\ result.error = Str(TryBlock(response).msg)
         /\ result.error # Str(<<"Invalid JSON at endpoint">>)

C8_Witness ==
  /\ Returned
  /\ response.kind = "status"
  /\ response.code = 404
  /\ "404" \in Range(result.error.s)

(* C9: for every result of a failed fetch, summary() renders exactly one
   line, stating the merchant domain and the error, and nothing else; also
   when the captured description is the empty string. *)
C9_FailureSummaryOneLine ==
  (SummaryCalled /\ Failed) =>
    /\ summaryOut.t = "text"
    /\ summaryOut.lines =
         << <<"[Disclose] Could not retrieve signals for ">> \o result.merchant_domain
              \o <<": ">> \o result.error.s >>

(* a document that is an object whose @graph, if any, is an array, with no
   disclose: key at the root or in an object element of @graph *)
NoDiscloseKeys(raw) ==
  /\ raw.t = "dict"
  /\ LET g == DictGet(raw.d, GRAPH, List(<< >>))
     IN /\ g.t = "list"
        /\ \A k \in DictKeys(raw.d) : ~IsDiscloseKey(k)
        /\ \A i \in 1..Len(g.l) :
             g.l[i].t = "dict" => \A k \in DictKeys(g.l[i].d) : ~IsDiscloseKey(k)

(* C10: a fetched document without disclose: keys gives an empty signals
   mapping and a summary that reports "No signals published."; a successful
   result with a non-empty signals mapping gives a summary with exactly one
   line per signal and without "No signals published.". *)
C10_SummaryOfSignals ==
  /\ (Called /\ response.kind = "json" /\ NoDiscloseKeys(response.raw)) =>
       /\ Returned
       /\ result.signals = EmptyDict
       /\ SummaryCalled => (summaryOut.t = "text" /\ NO_SIGNALS_LINE \in Range(summaryOut.lines))
  /\ (SummaryCalled /\ result.error = PyNone /\ result.signals # EmptyDict) =>
       /\ summaryOut.t = "text"
       /\ NO_SIGNALS_LINE \notin Range(summaryOut.lines)
       /\ Len(summaryOut.lines) =
            1 + (IF Truthy(result.verifier) THEN 1 ELSE 0) + Len(result.signals.d)

====
